---- MODULE Spec2Model ----
(***************************************************************************)
(* Model of the rust-rdkafka producer: the delivery-completion pipeline    *)
(* (send_copy / rd_kafka_poll / prod_callback), the reference-counted      *)
(* Producer and its Client, Topic handles borrowed from a Producer, the    *)
(* ProducerPollingThread, and the Config / TopicBuilder builders.          *)
(*                                                                         *)
(* Strings are sequences of bytes; byte 0 is the NUL terminator.           *)
(* Option values are sequences of length 0 (None) or 1 (Some).             *)
(***************************************************************************)
EXTENDS Integers, Sequences, FiniteSets, TLC

\* ------------------------------------------------------------------ bounds
MaxSends   == 2      \* send_copy calls per behaviour
MaxClones  == 2      \* Producer instances the application holds at once
MaxWorkers == 2      \* threads one ProducerPollingThread spawns

Sends   == 1 .. MaxSends
Workers == 1 .. MaxWorkers

\* ------------------------------------------------------- native constants
RD_KAFKA_RESP_ERR_NO_ERROR      == 0
RD_KAFKA_RESP_ERR__MSG_TIMED_OUT == -192
RD_KAFKA_RESP_ERR__QUEUE_FULL   == -184
RD_KAFKA_RESP_ERR__UNKNOWN_TOPIC == -188
RD_KAFKA_OFFSET_INVALID         == -1001
RD_KAFKA_PARTITION_UA           == -1
ENOBUFS  == 105

RD_KAFKA_CONF_OK      == 0
RD_KAFKA_CONF_INVALID == -1
RD_KAFKA_CONF_UNKNOWN == -2

MaxPairs == 2        \* entries of one HashMap<String, String>

MinOf(S) == CHOOSE x \in S : \A y \in S : x <= y

\* ------------------------------------------------------------ strings
NUL == 0
KeyKnown   == <<1>>          \* a property librdkafka knows
KeyKnown2  == <<3>>          \* another one
KeyUnknown == <<2>>          \* "invalid.key"
KeyNul     == <<1, 0, 2>>    \* a key with an embedded NUL
ValGood    == <<1>>
ValBad     == <<2>>          \* a value librdkafka refuses for a known key
ValNul     == <<1, 0>>       \* a value with an embedded NUL
NameGood   == <<1>>          \* "test"
NameEmpty  == << >>          \* "", refused by rd_kafka_topic_new
NameNul    == <<1, 0, 1>>    \* a topic name with an embedded NUL

Keys   == {KeyKnown, KeyKnown2, KeyUnknown, KeyNul}
Values == {ValGood, ValBad, ValNul}
Names  == {NameGood, NameEmpty, NameNul}

VARIABLES
    \* Producer / Client (producer.rs 22-35, client.rs 25-27, 75-81)
    strong,        \* strong count of the Arc<Client>
    producers,     \* number of Producer instances the application holds
    lent,          \* how many of them a live Topic borrows
    destroyCalls,  \* number of rd_kafka_destroy calls on the client
    uaf,           \* native calls that dereferenced a destroyed client
    \* oneshot channel of every send (producer.rs 73-74)
    promise,       \* Complete<DeliveryStatus>: none / boxed / completed
    future,        \* Oneshot<DeliveryStatus>:  none / pending / dropped
    slot,          \* value stored in the channel, <<>> or <<status>>
    redeems,       \* how often Box::from_raw ran on the token
    result,        \* what send_copy returned
    \* native engine
    msgs,          \* message records held by librdkafka
    \* ProducerPollingThread (producer.rs 110-114)
    pptState,      \* none / idle / stopping / dropping / dropped
    should_stop,   \* the AtomicBool
    handle,        \* Option<JoinHandle>: 0 or the worker it joins
    joining,       \* JoinHandle taken by the running stop()
    wpc,           \* position of every worker thread
    \* Config (config.rs 12-14) and TopicBuilder (client.rs 84-88)
    conf,          \* Config.conf
    confOrder,     \* iteration order of the last create_kafka_config
    confResult,    \* what the last create_kafka_config returned
    tbName,        \* TopicBuilder.name, <<>> (None) before get_topic
    tbConf,        \* TopicBuilder.conf
    tbOrder,       \* iteration order of the last TopicBuilder::create
    tbResult,      \* what the last TopicBuilder::create returned
    \* Client::new (client.rs 56-72)
    newResult      \* what the last Client::new called and returned

pipeVars == <<promise, future, slot, redeems, result, msgs>>
clientVars == <<strong, producers, lent, destroyCalls, uaf>>
pptVars == <<pptState, should_stop, handle, joining, wpc>>
vars == <<strong, producers, lent, destroyCalls, uaf,
          promise, future, slot, redeems, result, msgs,
          pptState, should_stop, handle, joining, wpc,
          conf, confOrder, confResult, tbName, tbConf, tbOrder, tbResult,
          newResult>>
buildVars == <<conf, confOrder, confResult, tbName, tbConf, tbOrder, tbResult,
               newResult>>

NoMsg == [st |-> "none", private |-> 0, err |-> 0, partition |-> 0, offset |-> 0]
NoResult == [kind |-> "none", code |-> 0]
NoBuild == [kind |-> "none", ret |-> 0, key |-> << >>, value |-> << >>,
            applied |-> {}, conf_obj |-> "none", topic_new |-> FALSE]
NoClient == [kind |-> "none", client_type |-> "none", calls |-> << >>,
             text |-> << >>, ptr |-> FALSE]
EmptyMap == << >>

Init ==
    /\ strong = 1
    /\ producers = 1
    /\ lent = 0
    /\ destroyCalls = 0
    /\ uaf = {}
    /\ promise = [i \in Sends |-> "none"]
    /\ future = [i \in Sends |-> "none"]
    /\ slot = [i \in Sends |-> <<>>]
    /\ redeems = [i \in Sends |-> 0]
    /\ result = [i \in Sends |-> NoResult]
    /\ msgs = [i \in Sends |-> NoMsg]
    /\ pptState = "none"
    /\ should_stop = FALSE
    /\ handle = 0
    /\ joining = 0
    /\ wpc = [w \in Workers |-> "unborn"]
    /\ conf = EmptyMap
    /\ confOrder = << >>
    /\ confResult = NoBuild
    /\ tbName = << >>
    /\ tbConf = EmptyMap
    /\ tbOrder = << >>
    /\ tbResult = NoBuild
    /\ newResult = NoClient

\* ------------------------------------------------- CString and the C side
\* CString::new: Err(NulError) when the bytes contain a NUL, else the bytes
\* followed by the terminator.
CStringNew(s) ==
    IF \E i \in 1 .. Len(s) : s[i] = NUL
    THEN [ok |-> FALSE, bytes |-> << >>]
    ELSE [ok |-> TRUE, bytes |-> Append(s, NUL)]

\* What C code reads from a char*: the bytes before the first NUL.
CStrRead(b) ==
    LET z == MinOf({i \in 1 .. Len(b) : b[i] = NUL} \cup {Len(b) + 1})
    IN  SubSeq(b, 1, z - 1)

\* rd_kafka_conf_set / rd_kafka_topic_conf_set on C strings.
rd_kafka_conf_set(name_c, value_c) ==
    IF CStrRead(name_c) \notin {KeyKnown, KeyKnown2} THEN RD_KAFKA_CONF_UNKNOWN
    ELSE IF CStrRead(value_c) # ValGood THEN RD_KAFKA_CONF_INVALID
    ELSE RD_KAFKA_CONF_OK

\* rd_kafka_topic_new returns NULL for a name it refuses.
rd_kafka_topic_new_ok(name_c) == CStrRead(name_c) # << >>

\* impl IsError for ConfRes
IsError(ret) == ret # RD_KAFKA_CONF_OK

\* HashMap::insert
Insert(m, k, v) == [x \in DOMAIN m \cup {k} |-> IF x = k THEN v ELSE m[x]]

\* The orders in which a HashMap may hand out its keys.
Orders(m) ==
    LET n == Cardinality(DOMAIN m)
    IN  {o \in [1 .. n -> DOMAIN m] : \A i, j \in 1 .. n : o[i] = o[j] => i = j}

\* The loop going on after a rejected pair instead of returning the error.
RECURSIVE SetPairs_ignore(_, _, _)
SetPairs_ignore(m, order, applied) ==
    IF order = << >>
    THEN [NoBuild EXCEPT !.kind = "Ok", !.applied = applied]
    ELSE LET key     == Head(order)
             value   == m[key]
             key_c   == CStringNew(key)
             value_c == CStringNew(value)
         IN  IF ~key_c.ok \/ ~value_c.ok
             THEN [NoBuild EXCEPT !.kind = "Nul", !.applied = applied]
             ELSE LET ret == rd_kafka_conf_set(key_c.bytes, value_c.bytes)
                  IN  IF IsError(ret)
                      THEN SetPairs_ignore(m, Tail(order), applied)
                      ELSE SetPairs_ignore(m, Tail(order),
                                    applied \cup {<<CStrRead(key_c.bytes),
                                                    CStrRead(value_c.bytes)>>})

\* The loop shared by Config::create_kafka_config and TopicBuilder::create:
\* every pair is converted to C strings and set on the native object; the
\* first conversion or native failure ends the loop with an error.
RECURSIVE SetPairs(_, _, _)
SetPairs(m, order, applied) ==
    IF order = << >>
    THEN [NoBuild EXCEPT !.kind = "Ok", !.applied = applied]
    ELSE LET key     == Head(order)
             value   == m[key]
             key_c   == CStringNew(key)
             value_c == CStringNew(value)
         IN  IF ~key_c.ok \/ ~value_c.ok
             THEN [NoBuild EXCEPT !.kind = "Nul", !.applied = applied]
             ELSE LET ret == rd_kafka_conf_set(key_c.bytes, value_c.bytes)
                  IN  IF IsError(ret)
                      THEN [NoBuild EXCEPT !.kind = "Config", !.ret = ret,
                                           !.key = key, !.value = value,
                                           !.applied = applied]
                      ELSE SetPairs(m, Tail(order),
                                    applied \cup {<<CStrRead(key_c.bytes),
                                                    CStrRead(value_c.bytes)>>})

\* Config::create_kafka_config: Ok hands the native object to the caller;
\* an early return leaves it allocated.
create_kafka_config(m, order) ==
    LET r == SetPairs(m, order, {})
    IN  [r EXCEPT !.conf_obj = IF r.kind = "Ok" THEN "returned" ELSE "leaked"]

\* ------------------------------------------------------------- Client::new
ClientTypes == {"Consumer", "Producer"}

\* let errstr = [0i8; 1024]: the buffer Client::new hands to rd_kafka_new,
\* here three bytes long.
ErrstrInit == <<NUL, NUL, NUL>>

\* The text rd_kafka_new writes when it fails.
ErrText == <<4, 5>>

\* rd_kafka_new: a handle, or NULL with the reason written to errstr.
rd_kafka_new(ok, errstr) ==
    IF ok THEN [ptr |-> TRUE, errstr |-> errstr]
    ELSE [ptr |-> FALSE, errstr |-> Append(ErrText, NUL)]

\* util::cstr_to_owned: the bytes of the buffer before the terminator.
cstr_to_owned(b) == CStrRead(b)

\* Client::new.  errstr is an immutable binding that rd_kafka_new writes
\* through a pointer cast from a shared reference, so what the read of
\* errstr after the call sees is not defined: the bytes written (stale
\* FALSE) or the bytes the binding was initialised with (stale TRUE).
Client_new(m, order, client_type, ok, stale) ==
    LET c == create_kafka_config(m, order)
    IN  IF c.kind # "Ok"
        THEN [NoClient EXCEPT !.kind = c.kind, !.client_type = client_type]
        ELSE LET registered == IF client_type = "Producer"
                               THEN <<"rd_kafka_conf_set_dr_msg_cb">>
                               ELSE << >>
                 calls == Append(registered, "rd_kafka_new")
                 n     == rd_kafka_new(ok, ErrstrInit)
                 seen  == IF stale THEN ErrstrInit ELSE n.errstr
             IN  IF ~n.ptr
                 THEN [kind |-> "ClientCreation", client_type |-> client_type,
                       calls |-> calls, text |-> cstr_to_owned(seen), ptr |-> FALSE]
                 ELSE [kind |-> "Ok", client_type |-> client_type,
                       calls |-> calls, text |-> << >>, ptr |-> TRUE]

\* TopicBuilder::create: the name is converted with unwrap() (a NUL in it
\* panics), the options are set, then rd_kafka_topic_new is called, which
\* takes the topic configuration object whatever it returns.
TopicBuilder_create(name, m, order) ==
    LET name_c == CStringNew(name)
    IN  IF ~name_c.ok
        THEN [NoBuild EXCEPT !.kind = "Panic"]
        ELSE LET r == SetPairs(m, order, {})
             IN  IF r.kind # "Ok"
                 THEN [r EXCEPT !.conf_obj = "leaked"]
                 ELSE IF rd_kafka_topic_new_ok(name_c.bytes)
                      THEN [r EXCEPT !.conf_obj = "consumed", !.topic_new = TRUE]
                      ELSE [r EXCEPT !.kind = "TopicName", !.key = name,
                                     !.conf_obj = "consumed", !.topic_new = TRUE]

\* ------------------------------------------------------ Arc<Client>, Client
\* Drop for Client: rd_kafka_destroy, then rd_kafka_wait_destroyed(1000).
ClientDrop(n) == n + 1

\* Dropping one Arc<Client>: the holder that takes the count from 1 to 0
\* drops the Client.
ArcRelease ==
    /\ strong' = strong - 1
    /\ destroyCalls' = IF strong = 1 THEN ClientDrop(destroyCalls) ELSE destroyCalls

\* A clone that copies the pointer without counting the new reference.
ArcClone_nocount == strong' = strong

\* Arc::clone
ArcClone == strong' = strong + 1

\* A native call through the client pointer (or a topic of that client).
Deref(call) == uaf' = IF destroyCalls > 0 THEN uaf \cup {call} ELSE uaf

\* A Topic that carries no lifetime tying it to its Producer.
Droppable_any == TRUE

\* Topic<'a> borrows the Producer it was built from: get_topic(&self) ties
\* 'a to the borrow of the Producer, so that Producer cannot be dropped
\* (moved out of scope) while the Topic is alive.  Every Producer instance
\* lends at most one Topic at a time here, so a Producer can be dropped when
\* the application holds more instances than Topics.
Droppable == producers > lent

CloneProducer ==
    /\ producers > 0
    /\ producers < MaxClones
    /\ producers' = producers + 1
    /\ ArcClone
    /\ UNCHANGED <<lent, destroyCalls, uaf>>
    /\ UNCHANGED pipeVars
    /\ UNCHANGED pptVars
    /\ UNCHANGED buildVars

DropProducer ==
    /\ producers > 0
    /\ Droppable
    /\ producers' = producers - 1
    /\ ArcRelease
    /\ UNCHANGED <<lent, uaf>>
    /\ UNCHANGED pipeVars
    /\ UNCHANGED pptVars
    /\ UNCHANGED buildVars

\* ------------------------------------------------------------------ Topic
\* producer.get_topic(name).create(), with no topic option set, on a
\* Producer that lends no Topic yet.
CreateTopic(name) ==
    /\ producers > lent
    /\ LET r == TopicBuilder_create(name, EmptyMap, << >>)
       IN  /\ r.kind \in {"Ok", "TopicName"}
           /\ lent' = IF r.kind = "Ok" THEN lent + 1 ELSE lent
    /\ Deref("topic_new")
    /\ UNCHANGED <<strong, producers, destroyCalls>>
    /\ UNCHANGED pipeVars
    /\ UNCHANGED pptVars
    /\ UNCHANGED buildVars

\* Drop for Topic: rd_kafka_topic_destroy.
DropTopic ==
    /\ lent > 0
    /\ lent' = lent - 1
    /\ Deref("topic_destroy")
    /\ UNCHANGED <<strong, producers, destroyCalls>>
    /\ UNCHANGED pipeVars
    /\ UNCHANGED pptVars
    /\ UNCHANGED buildVars

\* --------------------------------------------------------------- the engine
\* The errno values rd_kafka_produce fails with, and the outcomes a delivery
\* report carries.
Errnos == {ENOBUFS}

DeliveryErrs == {RD_KAFKA_RESP_ERR_NO_ERROR, RD_KAFKA_RESP_ERR__MSG_TIMED_OUT}

\* rd_kafka_errno2err
rd_kafka_errno2err(errno) ==
    IF errno = ENOBUFS THEN RD_KAFKA_RESP_ERR__QUEUE_FULL
    ELSE RD_KAFKA_RESP_ERR__UNKNOWN_TOPIC

\* The broker appends the messages of the partition in the order they were
\* produced: the offset of a message counts the messages queued before it.
OffsetOf(i) == Cardinality({j \in Sends : j < i /\ msgs[j].st # "none"})

\* The message record librdkafka hands to the delivery callback for queued
\* message i, delivered or failed with err.
Report(i, err) ==
    IF err = RD_KAFKA_RESP_ERR_NO_ERROR
    THEN [msgs[i] EXCEPT !.st = "reported", !.err = err, !.partition = 0,
                         !.offset = OffsetOf(i)]
    ELSE [msgs[i] EXCEPT !.st = "reported", !.err = err,
                         !.partition = RD_KAFKA_PARTITION_UA,
                         !.offset = RD_KAFKA_OFFSET_INVALID]

\* ------------------------------------------------------------ prod_callback
DeliveryStatus(m) == [error |-> m.err, partition |-> m.partition, offset |-> m.offset]

\* prod_callback taking the oldest outstanding promise instead of the one
\* msg._private points to.
prod_callback_fifo(ch, m) ==
    LET boxed == {i \in Sends : ch.promise[i] = "boxed"}
        tx == IF boxed = {} THEN m.private ELSE MinOf(boxed)
    IN  [promise |-> [ch.promise EXCEPT ![tx] = "completed"],
         redeems |-> [ch.redeems EXCEPT ![tx] = IF @ < 2 THEN @ + 1 ELSE @],
         slot    |-> IF future[tx] = "pending"
                     THEN [ch.slot EXCEPT ![tx] = <<DeliveryStatus(m)>>]
                     ELSE ch.slot]

\* prod_callback leaving the token alone when nobody waits for the status.
prod_callback_skip(ch, m) ==
    LET tx == m.private
    IN  IF future[tx] = "pending"
        THEN [promise |-> [ch.promise EXCEPT ![tx] = "completed"],
              redeems |-> [ch.redeems EXCEPT ![tx] = IF @ < 2 THEN @ + 1 ELSE @],
              slot    |-> [ch.slot EXCEPT ![tx] = <<DeliveryStatus(m)>>]]
        ELSE ch

\* prod_callback taking the promise back and dropping it without completing.
prod_callback_drop(ch, m) ==
    LET tx == m.private
    IN  [promise |-> [ch.promise EXCEPT ![tx] = "dropped"],
         redeems |-> [ch.redeems EXCEPT ![tx] = IF @ < 2 THEN @ + 1 ELSE @],
         slot    |-> ch.slot]

\* Box::from_raw on msg._private takes the promise back, complete() stores
\* the status for the receiver (nothing is stored when the receiver is gone)
\* and consumes the promise.
prod_callback(ch, m) ==
    LET tx == m.private
    IN  [promise |-> [ch.promise EXCEPT ![tx] = "completed"],
         redeems |-> [ch.redeems EXCEPT ![tx] = IF @ < 2 THEN @ + 1 ELSE @],
         slot    |-> IF future[tx] = "pending"
                     THEN [ch.slot EXCEPT ![tx] = <<DeliveryStatus(m)>>]
                     ELSE ch.slot]

\* Messages librdkafka holds and has not reported on.
Queued == {i \in Sends : msgs[i].st = "queued"}

\* rd_kafka_poll serves the delivery reports that have become ready: the
\* messages in S, message i with outcome e[i], one callback each.
RECURSIVE ServeReports(_, _, _)
ServeReports(S, e, ch) ==
    IF S = {} THEN ch
    ELSE LET i == MinOf(S)
         IN  ServeReports(S \ {i}, e, prod_callback(ch, Report(i, e[i])))

rd_kafka_poll(S, e) ==
    LET ch == ServeReports(S, e, [promise |-> promise, redeems |-> redeems, slot |-> slot])
    IN  /\ promise' = ch.promise
        /\ redeems' = ch.redeems
        /\ slot' = ch.slot
        /\ msgs' = [i \in Sends |-> IF i \in S THEN Report(i, e[i]) ELSE msgs[i]]
        /\ Deref("poll")
        /\ UNCHANGED <<future, result>>

\* ----------------------------------------------------------------- Producer
\* Producer::poll from an application thread.
Poll ==
    /\ producers > 0
    /\ \E S \in SUBSET Queued : \E e \in [S -> DeliveryErrs] : rd_kafka_poll(S, e)
    /\ UNCHANGED <<strong, producers, lent, destroyCalls>>
    /\ UNCHANGED pptVars
    /\ UNCHANGED buildVars

NextSend == MinOf({i \in Sends : result[i].kind = "none"})

\* A send that waits for the delivery report and fulfils the promise itself.
SendCopy_sync(n, errno) ==
    /\ producers > 0
    /\ lent > 0
    /\ \E i \in Sends : result[i].kind = "none"
    /\ LET i == NextSend
           m == [NoMsg EXCEPT !.st = "reported", !.private = i,
                              !.offset = OffsetOf(i)]
       IN  IF n # 0
           THEN /\ promise' = [promise EXCEPT ![i] = "boxed"]
                /\ future' = [future EXCEPT ![i] = "dropped"]
                /\ result' = [result EXCEPT ![i] =
                      [kind |-> "MessageProduction", code |-> rd_kafka_errno2err(errno)]]
                /\ UNCHANGED <<msgs, slot, redeems>>
           ELSE /\ promise' = [promise EXCEPT ![i] = "completed"]
                /\ future' = [future EXCEPT ![i] = "pending"]
                /\ result' = [result EXCEPT ![i] = [kind |-> "Ok", code |-> 0]]
                /\ msgs' = [msgs EXCEPT ![i] = m]
                /\ slot' = [slot EXCEPT ![i] = <<DeliveryStatus(m)>>]
                /\ redeems' = [redeems EXCEPT ![i] = 1]
    /\ Deref("produce")
    /\ UNCHANGED <<strong, producers, lent, destroyCalls>>
    /\ UNCHANGED pptVars
    /\ UNCHANGED buildVars

\* A send whose failure also throws away the promises of the sends that are
\* still in flight.
SendCopy_cancel(n, errno) ==
    /\ producers > 0
    /\ lent > 0
    /\ \E i \in Sends : result[i].kind = "none"
    /\ LET i == NextSend
       IN  IF n # 0
           THEN /\ promise' = [j \in Sends |->
                        IF j = i THEN "boxed"
                        ELSE IF promise[j] = "boxed" THEN "completed"
                        ELSE promise[j]]
                /\ future' = [future EXCEPT ![i] = "dropped"]
                /\ result' = [result EXCEPT ![i] =
                      [kind |-> "MessageProduction", code |-> rd_kafka_errno2err(errno)]]
                /\ msgs' = msgs
           ELSE /\ promise' = [promise EXCEPT ![i] = "boxed"]
                /\ future' = [future EXCEPT ![i] = "pending"]
                /\ result' = [result EXCEPT ![i] = [kind |-> "Ok", code |-> 0]]
                /\ msgs' = [msgs EXCEPT ![i] = [NoMsg EXCEPT !.st = "queued", !.private = i]]
    /\ Deref("produce")
    /\ UNCHANGED <<slot, redeems>>
    /\ UNCHANGED <<strong, producers, lent, destroyCalls>>
    /\ UNCHANGED pptVars
    /\ UNCHANGED buildVars

\* Producer::_send_copy: n is what rd_kafka_produce returns, errno what it
\* leaves in errno when it fails.
SendCopy(n, errno) ==
    /\ producers > 0
    /\ lent > 0
    /\ \E i \in Sends : result[i].kind = "none"
    /\ LET i == NextSend
       IN  IF n # 0
           THEN /\ promise' = [promise EXCEPT ![i] = "boxed"]
                /\ future' = [future EXCEPT ![i] = "dropped"]
                /\ result' = [result EXCEPT ![i] =
                      [kind |-> "MessageProduction", code |-> rd_kafka_errno2err(errno)]]
                /\ msgs' = msgs
           ELSE /\ promise' = [promise EXCEPT ![i] = "boxed"]
                /\ future' = [future EXCEPT ![i] = "pending"]
                /\ result' = [result EXCEPT ![i] = [kind |-> "Ok", code |-> 0]]
                /\ msgs' = [msgs EXCEPT ![i] = [NoMsg EXCEPT !.st = "queued", !.private = i]]
    /\ Deref("produce")
    /\ UNCHANGED <<slot, redeems>>
    /\ UNCHANGED <<strong, producers, lent, destroyCalls>>
    /\ UNCHANGED pptVars
    /\ UNCHANGED buildVars

\* The caller drops a DeliveryFuture it was given.  The receiver goes, and
\* with it a status that was stored for it.
DropFuture(i) ==
    /\ future[i] = "pending"
    /\ future' = [future EXCEPT ![i] = "dropped"]
    /\ slot' = [slot EXCEPT ![i] = << >>]
    /\ UNCHANGED <<promise, redeems, result, msgs>>
    /\ UNCHANGED clientVars
    /\ UNCHANGED pptVars
    /\ UNCHANGED buildVars

\* Future for DeliveryFuture: what poll() on the future returns.
DeliveryFuture_poll(i) ==
    IF slot[i] # << >> THEN [kind |-> "Ready", value |-> slot[i]]
    ELSE IF promise[i] \in {"boxed", "none"} THEN [kind |-> "NotReady", value |-> << >>]
    ELSE [kind |-> "Canceled", value |-> << >>]

\* ---------------------------------------------------- ProducerPollingThread
Unborn == {w \in Workers : wpc[w] = "unborn"}

\* ProducerPollingThread::new: clones the Producer, flag false, no handle.
PptNewFields ==
    /\ ArcClone
    /\ should_stop' = FALSE
    /\ handle' = 0

\* A start whose closure uses the Producer of the object without cloning it.
PptSpawn_noclone(count) ==
    /\ Unborn # {}
    /\ LET w == MinOf(Unborn)
       IN  /\ wpc' = [wpc EXCEPT ![w] = "check"]
           /\ handle' = w
    /\ strong' = count

\* ProducerPollingThread::start: the spawned closure owns one more clone of
\* the Producer; the new JoinHandle replaces whatever handle was stored.
PptSpawn(count) ==
    /\ Unborn # {}
    /\ LET w == MinOf(Unborn)
       IN  /\ wpc' = [wpc EXCEPT ![w] = "check"]
           /\ handle' = w
    /\ strong' = count + 1

PptNew ==
    /\ producers > 0
    /\ pptState = "none"
    /\ PptNewFields
    /\ pptState' = "idle"
    /\ UNCHANGED <<joining, wpc>>
    /\ UNCHANGED <<producers, lent, destroyCalls, uaf>>
    /\ UNCHANGED pipeVars
    /\ UNCHANGED buildVars

\* A start that clears the stop flag before it spawns the worker.
PptStart_reset ==
    /\ pptState = "idle"
    /\ PptSpawn(strong)
    /\ should_stop' = FALSE
    /\ UNCHANGED <<pptState, joining>>
    /\ UNCHANGED <<producers, lent, destroyCalls, uaf>>
    /\ UNCHANGED pipeVars
    /\ UNCHANGED buildVars

PptStart ==
    /\ pptState = "idle"
    /\ PptSpawn(strong)
    /\ UNCHANGED <<pptState, should_stop, joining>>
    /\ UNCHANGED <<producers, lent, destroyCalls, uaf>>
    /\ UNCHANGED pipeVars
    /\ UNCHANGED buildVars

\* Producer::start_polling_thread: new, then start.
StartPollingThread ==
    /\ producers > 0
    /\ pptState = "none"
    /\ should_stop' = FALSE
    /\ PptSpawn(strong + 1)
    /\ pptState' = "idle"
    /\ UNCHANGED joining
    /\ UNCHANGED <<producers, lent, destroyCalls, uaf>>
    /\ UNCHANGED pipeVars
    /\ UNCHANGED buildVars

\* A stop that sets the flag before it looks for a handle.
StopBegin_always(waiting) ==
    IF handle # 0
    THEN /\ should_stop' = TRUE
         /\ joining' = handle
         /\ handle' = 0
         /\ pptState' = waiting
    ELSE /\ should_stop' = TRUE
         /\ UNCHANGED <<joining, handle, pptState>>

\* ProducerPollingThread::stop up to the join: with a handle stored, set the
\* flag, take the handle and wait for that thread; without one, return.
StopBegin(waiting) ==
    IF handle # 0
    THEN /\ should_stop' = TRUE
         /\ joining' = handle
         /\ handle' = 0
         /\ pptState' = waiting
    ELSE UNCHANGED <<should_stop, joining, handle, pptState>>

PptStop ==
    /\ pptState = "idle"
    /\ StopBegin("stopping")
    /\ UNCHANGED wpc
    /\ UNCHANGED clientVars
    /\ UNCHANGED pipeVars
    /\ UNCHANGED buildVars

\* join() returns once the joined thread has finished; stop() returns.
PptStopReturn ==
    /\ pptState = "stopping"
    /\ wpc[joining] = "exited"
    /\ pptState' = "idle"
    /\ joining' = 0
    /\ UNCHANGED <<should_stop, handle, wpc>>
    /\ UNCHANGED clientVars
    /\ UNCHANGED pipeVars
    /\ UNCHANGED buildVars

\* A drop that releases the fields without calling stop().
PptDrop_nostop ==
    /\ pptState = "idle"
    /\ pptState' = "dropped"
    /\ ArcRelease
    /\ UNCHANGED <<should_stop, joining, handle>>
    /\ UNCHANGED wpc
    /\ UNCHANGED <<producers, lent, uaf>>
    /\ UNCHANGED pipeVars
    /\ UNCHANGED buildVars

\* Drop for ProducerPollingThread: stop(), then the fields are dropped.
PptDrop ==
    /\ pptState = "idle"
    /\ IF handle # 0
       THEN /\ StopBegin("dropping")
            /\ UNCHANGED <<strong, destroyCalls>>
       ELSE /\ pptState' = "dropped"
            /\ ArcRelease
            /\ UNCHANGED <<should_stop, joining, handle>>
    /\ UNCHANGED wpc
    /\ UNCHANGED <<producers, lent, uaf>>
    /\ UNCHANGED pipeVars
    /\ UNCHANGED buildVars

PptDropReturn ==
    /\ pptState = "dropping"
    /\ wpc[joining] = "exited"
    /\ pptState' = "dropped"
    /\ ArcRelease
    /\ UNCHANGED <<should_stop, handle, joining, wpc>>
    /\ UNCHANGED <<producers, lent, uaf>>
    /\ UNCHANGED pipeVars
    /\ UNCHANGED buildVars

\* A worker whose loop never looks at the flag.
WorkerCheck_deaf(w) ==
    /\ wpc[w] = "check"
    /\ wpc' = [wpc EXCEPT ![w] = "poll"]
    /\ UNCHANGED <<strong, destroyCalls>>
    /\ UNCHANGED <<pptState, should_stop, handle, joining>>
    /\ UNCHANGED <<producers, lent, uaf>>
    /\ UNCHANGED pipeVars
    /\ UNCHANGED buildVars

\* The worker's loop condition: while !should_stop.load(Relaxed).  A worker
\* that leaves the loop drops its Producer and ends.
WorkerCheck(w) ==
    /\ wpc[w] = "check"
    /\ IF should_stop
       THEN /\ wpc' = [wpc EXCEPT ![w] = "exited"]
            /\ ArcRelease
       ELSE /\ wpc' = [wpc EXCEPT ![w] = "poll"]
            /\ UNCHANGED <<strong, destroyCalls>>
    /\ UNCHANGED <<pptState, should_stop, handle, joining>>
    /\ UNCHANGED <<producers, lent, uaf>>
    /\ UNCHANGED pipeVars
    /\ UNCHANGED buildVars

\* The worker's loop body: producer.poll(100).
WorkerPoll(w) ==
    /\ wpc[w] = "poll"
    /\ \E S \in SUBSET Queued : \E e \in [S -> DeliveryErrs] : rd_kafka_poll(S, e)
    /\ wpc' = [wpc EXCEPT ![w] = "check"]
    /\ UNCHANGED <<pptState, should_stop, handle, joining>>
    /\ UNCHANGED <<strong, producers, lent, destroyCalls>>
    /\ UNCHANGED buildVars

\* ------------------------------------------------------ Config, TopicBuilder
mainVars == <<strong, producers, lent, destroyCalls, uaf,
              promise, future, slot, redeems, result, msgs,
              pptState, should_stop, handle, joining, wpc>>

\* Config::set.  confResult describes the map as it is now, so a write
\* forgets the result of an earlier build.  The Config is filled and built
\* before the producer made from it hands out topic builders.
ConfigSet(k, v) ==
    /\ tbName = << >>
    /\ k \in DOMAIN conf \/ Cardinality(DOMAIN conf) < MaxPairs
    /\ conf' = Insert(conf, k, v)
    /\ confOrder' = << >>
    /\ confResult' = NoBuild
    /\ newResult' = NoClient
    /\ UNCHANGED <<tbName, tbConf, tbOrder, tbResult>>
    /\ UNCHANGED mainVars

\* Config::create_kafka_config, the HashMap iterating in some order.
CreateKafkaConfig ==
    /\ tbName = << >>
    /\ \E order \in Orders(conf) :
          /\ confOrder' = order
          /\ confResult' = create_kafka_config(conf, order)
    /\ UNCHANGED <<conf, tbName, tbConf, tbOrder, tbResult, newResult>>
    /\ UNCHANGED mainVars

\* Client::new(&config, client_type): ok is whether rd_kafka_new returns a
\* handle.  The configuration is built inside.
ClientNew(client_type, ok) ==
    /\ tbName = << >>
    /\ \E order \in Orders(conf) : \E stale \in BOOLEAN :
          /\ confOrder' = order
          /\ confResult' = create_kafka_config(conf, order)
          /\ newResult' = Client_new(conf, order, client_type, ok, stale)
    /\ UNCHANGED <<conf, tbName, tbConf, tbOrder, tbResult>>
    /\ UNCHANGED mainVars

\* Producer::get_topic / TopicBuilder::new, on a producer whose Config was
\* built successfully.
GetTopic(name) ==
    /\ confResult.kind = "Ok"
    /\ newResult.kind = "Ok"
    /\ newResult.client_type = "Producer"
    /\ tbName' = <<name>>
    /\ tbConf' = EmptyMap
    /\ tbOrder' = << >>
    /\ tbResult' = NoBuild
    /\ UNCHANGED <<conf, confOrder, confResult, newResult>>
    /\ UNCHANGED mainVars

\* TopicBuilder::set
TopicBuilderSet(k, v) ==
    /\ tbName # << >>
    /\ k \in DOMAIN tbConf \/ Cardinality(DOMAIN tbConf) < MaxPairs
    /\ tbConf' = Insert(tbConf, k, v)
    /\ tbOrder' = << >>
    /\ tbResult' = NoBuild
    /\ UNCHANGED <<conf, confOrder, confResult, tbName, newResult>>
    /\ UNCHANGED mainVars

\* TopicBuilder::create, the HashMap iterating in some order.
TopicBuilderCreate ==
    /\ tbName # << >>
    /\ \E order \in Orders(tbConf) :
          /\ tbOrder' = order
          /\ tbResult' = TopicBuilder_create(tbName[1], tbConf, order)
    /\ UNCHANGED <<conf, confOrder, confResult, tbName, tbConf, newResult>>
    /\ UNCHANGED mainVars

\* ------------------------------------------------------------ specifications

Next ==
    \/ CloneProducer
    \/ DropProducer
    \/ \E name \in {NameGood, NameEmpty} : CreateTopic(name)
    \/ DropTopic
    \/ SendCopy(0, 0)
    \/ \E e \in Errnos : SendCopy(-1, e)
    \/ Poll
    \/ \E i \in Sends : DropFuture(i)
    \/ PptNew
    \/ PptStart
    \/ StartPollingThread
    \/ PptStop
    \/ PptStopReturn
    \/ PptDrop
    \/ PptDropReturn
    \/ \E w \in Workers : WorkerCheck(w)
    \/ \E w \in Workers : WorkerPoll(w)

Spec == Init /\ [][Next]_vars

\* Every worker thread is scheduled again and again and its poll(100)
\* returns; a join returns once the joined thread has finished.
Fairness ==
    /\ \A w \in Workers : WF_vars(WorkerCheck(w)) /\ WF_vars(WorkerPoll(w))
    /\ WF_vars(PptStopReturn)
    /\ WF_vars(PptDropReturn)

\* Managed mode: the application creates a topic and sends, makes no manual
\* poll call and leaves dispatch to the ProducerPollingThread.
NextLive ==
    \/ CreateTopic(NameGood)
    \/ SendCopy(0, 0)
    \/ PptNew
    \/ PptStart
    \/ StartPollingThread
    \/ PptStop
    \/ PptStopReturn
    \/ PptDrop
    \/ PptDropReturn
    \/ \E w \in Workers : WorkerCheck(w)
    \/ \E w \in Workers : WorkerPoll(w)

SpecLive == Init /\ [][NextLive]_vars /\ Fairness

NextBuild ==
    \/ \E k \in Keys, v \in Values : ConfigSet(k, v)
    \/ CreateKafkaConfig
    \/ \E t \in ClientTypes, ok \in BOOLEAN : ClientNew(t, ok)
    \/ \E name \in Names : GetTopic(name)
    \/ \E k \in Keys, v \in Values : TopicBuilderSet(k, v)
    \/ TopicBuilderCreate

SpecBuild == Init /\ [][NextBuild]_vars

\* ===================================================================== C1
OkSends == {i \in Sends : result[i].kind = "Ok"}

\* C1: a completion token is redeemed at most once; a status only ever
\* reaches the future of the send it reports on; and once every successful
\* send has been dispatched, every one of the N tokens has been redeemed
\* exactly once, every future still held has the status of its own message,
\* and no failed or unused send has received anything.
C1_TokenRedeemedOnce ==
    /\ \A i \in Sends : redeems[i] <= 1
    /\ \A i \in Sends : slot[i] # << >> =>
          /\ i \in OkSends
          /\ msgs[i].st = "reported"
          /\ slot[i] = <<DeliveryStatus(msgs[i])>>
    /\ (\A i \in OkSends : msgs[i].st = "reported") =>
          /\ \A i \in OkSends :
                /\ redeems[i] = 1
                /\ promise[i] = "completed"
                /\ future[i] = "pending" => slot[i] = <<DeliveryStatus(msgs[i])>>
          /\ \A i \in Sends \ OkSends : redeems[i] = 0 /\ slot[i] = << >>

\* Two sends, both dispatched, both futures holding a status and the two
\* statuses different.
C1_Witness ==
    /\ OkSends = {1, 2}
    /\ \A i \in OkSends : msgs[i].st = "reported" /\ slot[i] # << >>
    /\ slot[1] # slot[2]

\* ===================================================================== C2
\* C2: a send that the native produce call refuses returns
\* Error::MessageProduction, hands out no future, and leaves no promise
\* allocated for it.
C2_FailedSendReclaimsToken ==
    \A i \in Sends : result[i].kind = "MessageProduction" =>
        /\ future[i] # "pending"
        /\ promise[i] # "boxed"

\* ===================================================================== C3
\* stop() is not running and no handle is stored: the object was never
\* started, or stop() (called or run by drop) has returned and start() has
\* not been called since.
StopReturned == pptState \in {"idle", "dropped"} /\ handle = 0

\* C3: once stop() has returned, every worker thread the object spawned has
\* exited (so none of them can run another completion callback).
C3_StopJoinsEveryWorker ==
    StopReturned => \A w \in Workers : wpc[w] \in {"unborn", "exited"}

\* ===================================================================== C4
LastSpawned ==
    IF Unborn = Workers THEN 0
    ELSE CHOOSE w \in Workers \ Unborn : \A x \in Workers \ Unborn : x <= w

C5_DroppedFutureStillRedeemed ==
    [][\A i \in Sends :
          (future[i] = "dropped" /\ msgs[i].st = "queued" /\ msgs'[i].st = "reported") =>
              /\ promise[i] = "boxed"
              /\ promise'[i] = "completed"
              /\ redeems[i] = 0
              /\ redeems'[i] = 1
              /\ slot[i] = << >>
              /\ slot'[i] = << >>
              /\ uaf' = {}]_vars

\* The completion of a send was dispatched with no receiver left: the token
\* is consumed and no status is stored anywhere.
C5_Witness ==
    \E i \in Sends :
        /\ future[i] = "dropped"
        /\ result[i].kind = "Ok"
        /\ msgs[i].st = "reported"
        /\ slot[i] = << >>
        /\ promise[i] = "completed"

\* ===================================================================== C6
HasNul(s) == \E i \in 1 .. Len(s) : s[i] = NUL
Rejected(k, v) == IsError(rd_kafka_conf_set(Append(k, NUL), Append(v, NUL)))
Pairs(m) == {<<k, m[k]>> : k \in DOMAIN m}
PairsBefore(m, order, n) == {<<order[j], m[order[j]]>> : j \in 1 .. n - 1}
CleanBefore(m, order, n) ==
    \A j \in 1 .. n - 1 :
        /\ ~HasNul(order[j])
        /\ ~HasNul(m[order[j]])
        /\ ~Rejected(order[j], m[order[j]])

BuiltOk(r, m) ==
    /\ r.kind = "Ok"
    /\ r.applied = Pairs(m)
    /\ r.conf_obj = "returned"

FirstRejected(r, m, order) ==
    /\ r.kind = "Config"
    /\ \E n \in 1 .. Len(order) :
          /\ r.key = order[n]
          /\ r.value = m[order[n]]
          /\ ~HasNul(r.key) /\ ~HasNul(r.value)
          /\ Rejected(r.key, r.value)
          /\ r.ret = rd_kafka_conf_set(Append(r.key, NUL), Append(r.value, NUL))
          /\ CleanBefore(m, order, n)
          /\ r.applied = PairsBefore(m, order, n)

FirstNul(r, m, order) ==
    /\ r.kind = "Nul"
    /\ \E n \in 1 .. Len(order) :
          /\ HasNul(order[n]) \/ HasNul(m[order[n]])
          /\ CleanBefore(m, order, n)
          /\ r.applied = PairsBefore(m, order, n)

\* C6 as stated: create_kafka_config either succeeds with every pair
\* applied or fails with a ConfigurationError for the first rejected pair.
C6_OkOrConfigError ==
    confResult.kind # "none" =>
        \/ BuiltOk(confResult, conf)
        \/ FirstRejected(confResult, conf, confOrder)

\* C6 amended: create_kafka_config either succeeds with every accumulated
\* pair applied to the fresh native object, or fails with a
\* ConfigurationError reporting the first pair (in the map's iteration
\* order) that the native layer rejects, or fails with a Nul error when a
\* key or value with an embedded NUL comes up before any rejected pair.
C6_OkConfigErrorOrNul ==
    confResult.kind # "none" =>
        \/ BuiltOk(confResult, conf)
        \/ FirstRejected(confResult, conf, confOrder)
        \/ FirstNul(confResult, conf, confOrder)

\* A build of two pairs that the native layer would both reject: the error
\* names the one that came first.
C6_Witness ==
    /\ confResult.kind = "Config"
    /\ Len(confOrder) = 2
    /\ \A k \in DOMAIN conf : ~HasNul(k) /\ ~HasNul(conf[k]) /\ Rejected(k, conf[k])
    /\ confResult.key = confOrder[1]

\* ===================================================================== C7
\* C7: live Topics imply that the Producers they borrow are still held and
\* that the client has not been destroyed; no topic was created, used by a
\* send, or destroyed on a destroyed client.
C7_TopicWithinClient ==
    /\ lent > 0 =>
          /\ destroyCalls = 0
          /\ lent <= producers
    /\ uaf \cap {"topic_new", "produce", "topic_destroy"} = {}

\* A topic is alive and in use while its Producer is the last holder of the
\* client.
C7_Witness ==
    /\ lent = 1
    /\ producers = 1
    /\ strong = 1
    /\ OkSends # {}

\* ===================================================================== C8
Holders ==
    producers
    + (IF pptState \in {"idle", "stopping", "dropping"} THEN 1 ELSE 0)
    + Cardinality({w \in Workers : wpc[w] \in {"check", "poll"}})

\* C8: every Producer clone is one more reference to the one client; the
\* client is destroyed exactly once, exactly when the last clone is gone;
\* and no poll or send went through the pointer after the destroy.
C8_DestroyedOnceByLastClone ==
    /\ strong = Holders
    /\ destroyCalls = (IF Holders = 0 THEN 1 ELSE 0)
    /\ uaf = {}

\* The client was shared by the application, the polling thread object and
\* a worker, and has been destroyed after all of them let go.
C8_Witness ==
    /\ destroyCalls = 1
    /\ pptState = "dropped"
    /\ \E w \in Workers : wpc[w] = "exited"
    /\ \E i \in Sends : msgs[i].st = "reported"

\* ===================================================================== C9
PollStep == Poll \/ (\E w \in Workers : WorkerPoll(w))

\* C9: the future send_copy returns is unresolved when it returns, and a
\* future becomes resolved only in a step that is an rd_kafka_poll (manual
\* or the worker's) redeeming its token.
C9_ResolvedOnlyByPoll ==
    [][/\ \A i \in Sends :
            (result[i].kind = "none" /\ result'[i].kind = "Ok") =>
                /\ future'[i] = "pending"
                /\ slot'[i] = << >>
                /\ redeems'[i] = 0
       /\ \A i \in Sends :
            (slot[i] = << >> /\ slot'[i] # << >>) =>
                /\ PollStep
                /\ redeems'[i] = redeems[i] + 1]_vars

\* A send has returned its future and no poll has served its message: the
\* future is unresolved, while an earlier send has been resolved by a poll.
C9_Witness ==
    /\ result[2].kind = "Ok"
    /\ future[2] = "pending"
    /\ msgs[2].st = "queued"
    /\ DeliveryFuture_poll(2).kind = "NotReady"
    /\ DeliveryFuture_poll(1).kind = "Ready"

\* ==================================================================== C10
Sound(m) == \A k \in DOMAIN m : ~HasNul(k) /\ ~HasNul(m[k]) => ~Rejected(k, m[k])
AnyNul(m) == \E k \in DOMAIN m : HasNul(k) \/ HasNul(m[k])

\* C10: when nothing else is wrong with the input, an embedded NUL in an
\* option key or value of a Config, or in an option key, an option value or
\* the name of a TopicBuilder, makes the operation return Error::Nul.
C10_NulIsReturnedAsError ==
    /\ (confResult.kind # "none" /\ Sound(conf) /\ AnyNul(conf))
          => confResult.kind = "Nul"
    /\ (tbResult.kind # "none" /\ Sound(tbConf) /\ (AnyNul(tbConf) \/ HasNul(tbName[1])))
          => tbResult.kind = "Nul"

\* ==================================================================== C11
\* Worker threads that are inside producer.poll(100).
Polling == {w \in Workers : wpc[w] = "poll"}

\* C11: at any instant at most one worker thread is executing rd_kafka_poll
\* against the client.
C11_OnePollingThread == Cardinality(Polling) <= 1

FailedSendOf(i) == result[i].kind = "none" /\ result'[i].kind = "MessageProduction"

\* Sends whose token is outstanding: produced, not yet dispatched.
InFlight == {j \in Sends : result[j].kind = "Ok" /\ promise[j] = "boxed"}

\* C13: a failing send_copy changes nothing of any other send (token,
\* future, stored status, message), so the set of outstanding tokens of the
\* earlier sends is the same before and after it; and a future that is held
\* and resolved holds the status of its own message, failed sends or not.
C13_FailedSendLeavesOthers ==
    [][/\ \A i \in Sends : FailedSendOf(i) =>
             /\ \A j \in Sends \ {i} :
                   /\ promise'[j] = promise[j]
                   /\ future'[j] = future[j]
                   /\ slot'[j] = slot[j]
                   /\ redeems'[j] = redeems[j]
                   /\ msgs'[j] = msgs[j]
                   /\ result'[j] = result[j]
             /\ InFlight' = InFlight
       /\ \A j \in Sends :
             (result'[j].kind = "Ok" /\ msgs'[j].st = "reported" /\ future'[j] = "pending")
                => slot'[j] = <<DeliveryStatus(msgs'[j])>>]_vars

\* A send has failed while an earlier send is still in flight with its
\* future held.
C13_Witness ==
    /\ result[2].kind = "MessageProduction"
    /\ 1 \in InFlight
    /\ future[1] = "pending"
    /\ msgs[1].st = "queued"

\* ==================================================================== C14
\* C14: in TopicBuilder::create a pair rejected by the native layer makes
\* the creation fail with Error::Config, without rd_kafka_topic_new having
\* been called and with the topic configuration object not left allocated;
\* and when rd_kafka_topic_new returns NULL the error names the topic.
C14_RejectedPairDiscardsConf ==
    /\ ( /\ tbResult.kind # "none"
         /\ ~HasNul(tbName[1])
         /\ ~AnyNul(tbConf)
         /\ \E k \in DOMAIN tbConf : Rejected(k, tbConf[k]) )
          => tbResult.kind = "Config"
    /\ tbResult.kind = "Config" =>
          /\ ~tbResult.topic_new
          /\ tbResult.conf_obj # "leaked"
    /\ tbResult.kind = "TopicName" =>
          /\ tbResult.topic_new
          /\ tbResult.key = tbName[1]

\* ==================================================================== C15
Running == {w \in Workers : wpc[w] \in {"check", "poll"}}

\* C15: under fair scheduling a worker that runs while the stop flag is set
\* eventually observes it and exits, and a stop() that has set the flag and
\* waits in join eventually returns, with the worker it joined exited and
\* no handle left; stop() goes from started to stop-requested by setting the
\* flag, and from there to joined only after the worker has exited.
C15_StopEventuallyReturns ==
    /\ \A w \in Workers : (should_stop /\ w \in Running) ~> (wpc[w] = "exited")
    /\ \A w \in Workers :
          (pptState = "stopping" /\ joining = w)
             ~> (pptState = "idle" /\ handle = 0 /\ wpc[w] = "exited")
    /\ [][/\ (pptState = "idle" /\ pptState' = "stopping") =>
                /\ handle # 0
                /\ should_stop'
                /\ joining' = handle
          /\ (pptState = "stopping" /\ pptState' # "stopping") =>
                /\ pptState' = "idle"
                /\ wpc[joining] = "exited"
                /\ handle' = 0]_vars

\* stop() has been called on a started loop and has returned: the flag is
\* set, the worker has exited and been joined.
C15_Witness ==
    /\ pptState = "idle"
    /\ should_stop
    /\ handle = 0
    /\ Running = {}
    /\ \E w \in Workers : wpc[w] = "exited"

\* ==================================================================== C16
\* C16: while a worker thread is running the client has not been destroyed:
\* every running worker and the ProducerPollingThread object hold a
\* reference of their own, and no worker has polled a destroyed client.
C16_ClientOutlivesWorkers ==
    /\ Running # {} => destroyCalls = 0
    /\ strong >= Cardinality(Running)
                 + (IF pptState \in {"idle", "stopping", "dropping"} THEN 1 ELSE 0)
    /\ "poll" \notin uaf

\* The application has dropped every Producer it held and a worker is still
\* polling the client, which is alive.
C16_Witness ==
    /\ producers = 0
    /\ Polling # {}
    /\ destroyCalls = 0
    /\ \E i \in Sends : msgs[i].st = "reported"

\* ==================================================================== C17
\* C17: the stop flag never goes back to false.  A worker recorded in
\* handle while the flag is set was spawned by a start() after the stop():
\* it is at the head of its loop or has exited, never inside poll.  Every
\* new worker begins at the loop head, and a worker that evaluates the loop
\* condition with the flag set exits in that step, in which no token is
\* redeemed and no message is reported.
C17_StopFlagMonotonic ==
    /\ [](should_stop /\ handle # 0 => wpc[handle] \in {"check", "exited"})
    /\ [][/\ should_stop => should_stop'
          /\ \A w \in Workers :
                /\ (wpc[w] = "unborn" /\ wpc'[w] # "unborn") => wpc'[w] = "check"
                /\ (should_stop /\ wpc[w] = "check" /\ wpc'[w] # "check") =>
                      /\ wpc'[w] = "exited"
                      /\ UNCHANGED pipeVars]_vars

\* stop() was called on a started loop, start() was called again, and the
\* worker of that later start has exited while a message is still queued.
C17_Witness ==
    /\ should_stop
    /\ pptState = "idle"
    /\ handle # 0
    /\ wpc[handle] = "exited"
    /\ \E i \in Sends : msgs[i].st = "queued"

\* ==================================================================== C18
\* C18: a future that is held never polls as Canceled; every promise is
\* either still boxed as an outstanding token or was completed by the
\* delivery callback, which redeemed it once and, for a held future, stored
\* the status of its message.
C18_NeverCanceled ==
    \A i \in Sends :
        /\ future[i] = "pending" => DeliveryFuture_poll(i).kind \in {"NotReady", "Ready"}
        /\ promise[i] \in {"none", "boxed", "completed"}
        /\ promise[i] = "none" <=> result[i].kind = "none"
        /\ promise[i] = "completed" =>
              /\ result[i].kind = "Ok"
              /\ msgs[i].st = "reported"
              /\ redeems[i] = 1
              /\ future[i] = "pending" => slot[i] = <<DeliveryStatus(msgs[i])>>

\* One held future has been resolved by the callback while the promise of a
\* refused send is still boxed.
C18_Witness ==
    /\ future[1] = "pending"
    /\ promise[1] = "completed"
    /\ DeliveryFuture_poll(1).kind = "Ready"
    /\ result[2].kind = "MessageProduction"
    /\ promise[2] = "boxed"

\* ==================================================================== C19
\* C19: stop() with no handle stored (never started, or already stopped)
\* changes nothing; the stop() run by drop in that case joins nothing and
\* only releases the object; a join is only ever begun on a stored handle;
\* and the flag is set only if a worker was ever started.
C19_StopWithoutHandleIsNoOp ==
    /\ [](should_stop => Unborn # Workers)
    /\ [][/\ (pptState = "idle" /\ handle = 0 /\ PptStop) => UNCHANGED vars
          /\ (pptState = "idle" /\ handle = 0 /\ PptDrop) =>
                /\ pptState' = "dropped"
                /\ UNCHANGED <<should_stop, handle, joining, wpc>>
          /\ (pptState = "idle" /\ pptState' \in {"stopping", "dropping"}) =>
                /\ handle # 0
                /\ joining' = handle
                /\ handle' = 0]_vars

\* A ProducerPollingThread made by new() and never started has been dropped:
\* the stop() of its drop found no handle, the flag is still false and
\* nothing was joined.
C19_Witness ==
    /\ pptState = "dropped"
    /\ Unborn = Workers
    /\ ~should_stop
    /\ joining = 0
    /\ handle = 0

====
